---------------------------- MODULE Spec2Model ----------------------------
(***************************************************************************)
(* Model of the TrailBase config generator                                 *)
(* (server/template/config-generator/src/main.rs).                         *)
(*                                                                         *)
(* Text is modelled by TLA+ strings, character by character: a template,   *)
(* the authn file and both outputs are the strings the program handles.    *)
(***************************************************************************)
EXTENDS Integers, Sequences, FiniteSets, TLC

VARIABLES
    pc,             \* the statement of main about to run
    args,           \* env::args(), once collected
    template,       \* contents of the template file, once read
    authn_content,  \* contents of the authn file, once read
    authn_data,     \* the AuthnData parse_authn_file returned
    config,         \* the public config text built by main
    vault,          \* Vault.secrets, the map built by generate_vault_file
    vault_content,  \* the text generate_vault_file returned
    dirs,           \* file system: the directories that exist
    config_file,    \* file system: contents of the config output
    vault_file,     \* file system: contents of the vault output
    stderr,         \* the lines written by eprintln!
    exit_code,      \* the status the process ended with
    trace           \* the steps main has performed, in order

vars == <<pc, args, template, authn_content, authn_data, config, vault,
          vault_content, dirs, config_file, vault_file, stderr, exit_code,
          trace>>

\* Option<T>
None == [some |-> FALSE]
Some(v) == [some |-> TRUE, val |-> v]

\* Every variable but pc, dirs, stderr and trace holds an Option: None until
\* the statement that binds it (or writes the file, or ends the process) has run.

---------------------------------------------------------------------------
(* Strings *)

CharAt(s, i) == SubSeq(s, i, i)

\* str::starts_with
StartsWith(s, p) == Len(p) <= Len(s) /\ SubSeq(s, 1, Len(p)) = p

Least(S) == CHOOSE x \in S : \A y \in S : x <= y

Greatest(S) == CHOOSE x \in S : \A y \in S : x >= y

\* the index of the first occurrence of p in s at or after i, 0 if none
FindFrom(s, p, i) ==
    LET hits == {j \in i..(Len(s) - Len(p) + 1) : SubSeq(s, j, j + Len(p) - 1) = p}
    IN IF hits = {} THEN 0 ELSE Least(hits)

\* str::contains
Contains(s, p) == FindFrom(s, p, 1) # 0

RECURSIVE ReplaceFrom(_, _, _, _)
ReplaceFrom(s, from, to, i) ==
    LET at == FindFrom(s, from, i) IN
    IF at = 0 THEN SubSeq(s, i, Len(s))
    ELSE SubSeq(s, i, at - 1) \o to \o ReplaceFrom(s, from, to, at + Len(from))

\* Replace that stops after the first match, as str::replacen(from, to, 1)
ReplaceFirst(s, from, to) ==
    LET at == FindFrom(s, from, 1) IN
    IF at = 0 THEN s
    ELSE SubSeq(s, 1, at - 1) \o to \o SubSeq(s, at + Len(from), Len(s))

\* str::replace: every non-overlapping match of a non-empty pattern, left to right
Replace(s, from, to) == ReplaceFrom(s, from, to, 1)

\* char::is_whitespace, on the characters the inputs use
Whitespace == {" ", "\t", "\r", "\n"}

RECURSIVE TrimStart(_)
TrimStart(s) ==
    IF Len(s) > 0 /\ CharAt(s, 1) \in Whitespace
    THEN TrimStart(SubSeq(s, 2, Len(s))) ELSE s

RECURSIVE TrimEnd(_)
TrimEnd(s) ==
    IF Len(s) > 0 /\ CharAt(s, Len(s)) \in Whitespace
    THEN TrimEnd(SubSeq(s, 1, Len(s) - 1)) ELSE s

\* str::trim
Trim(s) == TrimEnd(TrimStart(s))

RECURSIVE LinesFrom(_, _)
LinesFrom(s, i) ==
    IF i > Len(s) THEN <<>>
    ELSE LET nl   == FindFrom(s, "\n", i)
             end  == IF nl = 0 THEN Len(s) ELSE nl - 1
             raw  == SubSeq(s, i, end)
             line == IF nl # 0 /\ Len(raw) > 0 /\ CharAt(raw, Len(raw)) = "\r"
                     THEN SubSeq(raw, 1, Len(raw) - 1) ELSE raw
         IN <<line>> \o (IF nl = 0 THEN <<>> ELSE LinesFrom(s, nl + 1))

\* str::lines: split at "\n" or "\r\n"; a final line ending yields no empty line
Lines(s) == LinesFrom(s, 1)

\* SplitOnce that takes a string without the separator as a key with no value
SplitOnceOrWhole(s, sep) ==
    LET at == FindFrom(s, sep, 1) IN
    IF at = 0 THEN Some(<<s, "">>)
    ELSE Some(<<SubSeq(s, 1, at - 1), SubSeq(s, at + Len(sep), Len(s))>>)

\* str::split_once
SplitOnce(s, sep) ==
    LET at == FindFrom(s, sep, 1) IN
    IF at = 0 THEN None
    ELSE Some(<<SubSeq(s, 1, at - 1), SubSeq(s, at + Len(sep), Len(s))>>)

Digits == <<"0", "1", "2", "3", "4", "5", "6", "7", "8", "9">>

IsDigit(c) == \E d \in 1..10 : Digits[d] = c

DigitValue(c) == (CHOOSE d \in 1..10 : Digits[d] = c) - 1

U16Max == 65535

RECURSIVE ParseDigits(_, _, _)
\* the checked accumulation of <u16 as FromStr>: Err on a non-digit or on overflow
ParseDigits(s, i, acc) ==
    IF i > Len(s) THEN Some(acc)
    ELSE IF ~IsDigit(CharAt(s, i)) THEN None
    ELSE LET next == acc * 10 + DigitValue(CharAt(s, i)) IN
         IF next > U16Max THEN None ELSE ParseDigits(s, i + 1, next)

\* ParseU16 with a port of 0 in place of every parse error
ParseU16OrZero(s) ==
    LET r == IF s = "" \/ s = "+" \/ s = "-" THEN None
             ELSE IF CharAt(s, 1) = "+" THEN ParseDigits(s, 2, 0)
             ELSE ParseDigits(s, 1, 0)
    IN IF r.some THEN r ELSE Some(0)

\* value.parse::<u16>(): an optional leading "+", then at least one digit
ParseU16(s) ==
    IF s = "" \/ s = "+" \/ s = "-" THEN None
    ELSE IF CharAt(s, 1) = "+" THEN ParseDigits(s, 2, 0)
    ELSE ParseDigits(s, 1, 0)

RECURSIVE ToDecimal(_)
\* Display for u16
ToDecimal(n) ==
    IF n < 10 THEN Digits[n + 1]
    ELSE ToDecimal(n \div 10) \o Digits[(n % 10) + 1]

---------------------------------------------------------------------------
(* parse_authn_file *)

KeyClientId == "GOOGLE_OAUTH_CLIENT_ID"
KeyClientSecret == "GOOGLE_OAUTH_CLIENT_SECRET"
KeySmtpHost == "EMAIL_SMTP_HOST"
KeySmtpPort == "EMAIL_SMTP_PORT"
KeySmtpUsername == "EMAIL_SMTP_USERNAME"
KeySmtpPassword == "EMAIL_SMTP_PASSWORD"
KeySenderName == "EMAIL_SENDER_NAME"
KeySenderAddress == "EMAIL_SENDER_ADDRESS"

\* the keys in the order the AuthnData literal unwraps them
RequiredKeys == <<KeyClientId, KeyClientSecret, KeySmtpHost, KeySmtpPort,
                  KeySmtpUsername, KeySmtpPassword, KeySenderName,
                  KeySenderAddress>>

InvalidPortError == "Error: EMAIL_SMTP_PORT must be a valid number"

NotFoundError(key) == "Error: " \o key \o " not found in authn file"

\* the eight `let mut ... = None` locals, and whether process::exit was called
ParseStart ==
    [client_id |-> None, client_secret |-> None, email_smtp_host |-> None,
     email_smtp_port |-> None, email_smtp_username |-> None,
     email_smtp_password |-> None, email_sender_name |-> None,
     email_sender_address |-> None, exited |-> FALSE]

\* MatchKey that keeps the first value a key was given
MatchKeyFirstWins(st, key, value) ==
    LET keep(old, new) == IF old.some THEN old ELSE Some(new) IN
    CASE key = KeyClientId      ->
            [st EXCEPT !.client_id = keep(@, value)]
      [] key = KeyClientSecret  ->
            [st EXCEPT !.client_secret = keep(@, value)]
      [] key = KeySmtpHost      ->
            [st EXCEPT !.email_smtp_host = keep(@, value)]
      [] key = KeySmtpPort      ->
            IF ParseU16(value).some
            THEN [st EXCEPT !.email_smtp_port = keep(@, ParseU16(value).val)]
            ELSE [st EXCEPT !.exited = TRUE]
      [] key = KeySmtpUsername  ->
            [st EXCEPT !.email_smtp_username = keep(@, value)]
      [] key = KeySmtpPassword  ->
            [st EXCEPT !.email_smtp_password = keep(@, value)]
      [] key = KeySenderName    ->
            [st EXCEPT !.email_sender_name = keep(@, value)]
      [] key = KeySenderAddress ->
            [st EXCEPT !.email_sender_address = keep(@, value)]
      [] OTHER -> st

\* the `match key` of the loop body
MatchKey(st, key, value) ==
    CASE key = KeyClientId      -> [st EXCEPT !.client_id = Some(value)]
      [] key = KeyClientSecret  -> [st EXCEPT !.client_secret = Some(value)]
      [] key = KeySmtpHost      -> [st EXCEPT !.email_smtp_host = Some(value)]
      [] key = KeySmtpPort      ->
            IF ParseU16(value).some
            THEN [st EXCEPT !.email_smtp_port = Some(ParseU16(value).val)]
            ELSE [st EXCEPT !.exited = TRUE]
      [] key = KeySmtpUsername  -> [st EXCEPT !.email_smtp_username = Some(value)]
      [] key = KeySmtpPassword  -> [st EXCEPT !.email_smtp_password = Some(value)]
      [] key = KeySenderName    -> [st EXCEPT !.email_sender_name = Some(value)]
      [] key = KeySenderAddress -> [st EXCEPT !.email_sender_address = Some(value)]
      [] OTHER -> st

\* one iteration of `for line in content.lines()`
ParseLine(st, rawline) ==
    LET line == Trim(rawline) IN
    IF line = "" \/ StartsWith(line, "#") THEN st
    ELSE LET kv == SplitOnce(line, "=") IN
         IF kv.some THEN MatchKey(st, Trim(kv.val[1]), Trim(kv.val[2]))
         ELSE st

RECURSIVE ParseLines(_, _, _)
ParseLines(st, lines, i) ==
    IF i > Len(lines) \/ st.exited THEN st
    ELSE ParseLines(ParseLine(st, lines[i]), lines, i + 1)

\* the Option local that holds a key's value
Local(st, key) ==
    CASE key = KeyClientId      -> st.client_id
      [] key = KeyClientSecret  -> st.client_secret
      [] key = KeySmtpHost      -> st.email_smtp_host
      [] key = KeySmtpPort      -> st.email_smtp_port
      [] key = KeySmtpUsername  -> st.email_smtp_username
      [] key = KeySmtpPassword  -> st.email_smtp_password
      [] key = KeySenderName    -> st.email_sender_name
      [] key = KeySenderAddress -> st.email_sender_address

\* the unwrap_or_else chain of the AuthnData literal: the first None exits
FirstMissing(st) ==
    IF \E i \in 1..Len(RequiredKeys) : ~Local(st, RequiredKeys[i]).some
    THEN Some(RequiredKeys[CHOOSE i \in 1..Len(RequiredKeys) :
                  /\ ~Local(st, RequiredKeys[i]).some
                  /\ \A j \in 1..(i - 1) : Local(st, RequiredKeys[j]).some])
    ELSE None

AuthnData(st) ==
    [client_id            |-> st.client_id.val,
     client_secret        |-> st.client_secret.val,
     email_smtp_host      |-> st.email_smtp_host.val,
     email_smtp_port      |-> st.email_smtp_port.val,
     email_smtp_username  |-> st.email_smtp_username.val,
     email_smtp_password  |-> st.email_smtp_password.val,
     email_sender_name    |-> st.email_sender_name.val,
     email_sender_address |-> st.email_sender_address.val]

OrDefault(opt, default) == IF opt.some THEN opt.val ELSE default

\* parse_authn_file with unwrap_or_default in place of the unwrap_or_else exits
parse_authn_file_defaults(content) ==
    LET st == ParseLines(ParseStart, Lines(content), 1) IN
    IF st.exited THEN [ok |-> FALSE, err |-> InvalidPortError]
    ELSE [ok |-> TRUE,
          data |-> [client_id            |-> OrDefault(st.client_id, ""),
                    client_secret        |-> OrDefault(st.client_secret, ""),
                    email_smtp_host      |-> OrDefault(st.email_smtp_host, ""),
                    email_smtp_port      |-> OrDefault(st.email_smtp_port, 0),
                    email_smtp_username  |-> OrDefault(st.email_smtp_username, ""),
                    email_smtp_password  |-> OrDefault(st.email_smtp_password, ""),
                    email_sender_name    |-> OrDefault(st.email_sender_name, ""),
                    email_sender_address |-> OrDefault(st.email_sender_address, "")]]

\* parse_authn_file: the record, or the message printed before process::exit(1)
parse_authn_file(content) ==
    LET st == ParseLines(ParseStart, Lines(content), 1) IN
    IF st.exited THEN [ok |-> FALSE, err |-> InvalidPortError]
    ELSE IF FirstMissing(st).some
         THEN [ok |-> FALSE, err |-> NotFoundError(FirstMissing(st).val)]
         ELSE [ok |-> TRUE, data |-> AuthnData(st)]

---------------------------------------------------------------------------
(* main: building the public config text *)

ClientIdPlaceholder == "client_id: \"<REDACTED>\""

EmailPlaceholder == "email {}"

\* format!("client_id: \"{}\"", authn_data.client_id)
ClientIdField(d) == "client_id: \"" \o d.client_id \o "\""

\* EmailSection with the password written where the marker belongs
EmailSectionWithPassword(d) ==
    "email {\n  smtp_host: \"" \o d.email_smtp_host
    \o "\"\n  smtp_port: " \o ToDecimal(d.email_smtp_port)
    \o "\n  smtp_username: \"" \o d.email_smtp_username
    \o "\"\n  smtp_password: \"" \o d.email_smtp_password
    \o "\"\n  sender_name: \"" \o d.email_sender_name
    \o "\"\n  sender_address: \"" \o d.email_sender_address \o "\"\n}"

\* the format! of email_section
EmailSection(d) ==
    "email {\n  smtp_host: \"" \o d.email_smtp_host
    \o "\"\n  smtp_port: " \o ToDecimal(d.email_smtp_port)
    \o "\n  smtp_username: \"" \o d.email_smtp_username
    \o "\"\n  smtp_password: \"<REDACTED>\"\n  sender_name: \""
    \o d.email_sender_name
    \o "\"\n  sender_address: \"" \o d.email_sender_address \o "\"\n}"

\* the two template.replace / config.replace calls, in their order
ConfigText(tmpl, d) ==
    Replace(Replace(tmpl, ClientIdPlaceholder, ClientIdField(d)),
            EmailPlaceholder, EmailSection(d))

---------------------------------------------------------------------------
(* generate_vault_file *)

VaultKeyClientSecret == "TRAIL_AUTH_OAUTH_PROVIDERS_GOOGLE_CLIENT_SECRET"

VaultKeySmtpPassword == "TRAIL_EMAIL_SMTP_PASSWORD"

PREFACE == "# Auto-generated config.Vault textproto"

\* VaultSecrets with the two values under each other's identifier
VaultSecretsSwapped(client_secret, email_password) ==
    (VaultKeyClientSecret :> email_password)
        @@ (VaultKeySmtpPassword :> client_secret)

\* the two vault.secrets.insert calls on an empty HashMap
VaultSecrets(client_secret, email_password) ==
    (VaultKeyClientSecret :> client_secret)
        @@ (VaultKeySmtpPassword :> email_password)

\* the text format's string escaping, on the characters the inputs use
Escape(s) == Replace(Replace(s, "\\", "\\\\"), "\"", "\\\"")

RECURSIVE TextEntries(_, _, _)
TextEntries(secrets, order, i) ==
    IF i > Len(order) THEN ""
    ELSE "{\n  key: \"" \o Escape(order[i]) \o "\"\n  value: \""
         \o Escape(secrets[order[i]]) \o "\"\n}"
         \o (IF i < Len(order) THEN ", " ELSE "")
         \o TextEntries(secrets, order, i + 1)

\* to_text_format_with_options(pretty) of a Vault whose map iterates in `order`
TextFormat(secrets, order) ==
    "secrets: [" \o TextEntries(secrets, order, 1) \o "]\n"

\* the orders a HashMap of these keys may iterate in
IterationOrders(secrets) ==
    {o \in [1..Cardinality(DOMAIN secrets) -> DOMAIN secrets] :
        \A i, j \in DOMAIN o : i # j => o[i] # o[j]}

\* generate_vault_file: the map it builds and the text it returns (always Ok)
generate_vault_file(client_secret, email_password, order) ==
    LET secrets == VaultSecrets(client_secret, email_password) IN
    [secrets |-> secrets,
     text    |-> PREFACE \o "\n" \o TextFormat(secrets, order)]

---------------------------------------------------------------------------
(* The file system and the command line *)

LastIndexOf(s, c) ==
    LET hits == {i \in 1..Len(s) : CharAt(s, i) = c} IN
    IF hits = {} THEN 0 ELSE Greatest(hits)

\* Path::parent, on paths without a trailing "/"
Parent(path) ==
    LET slash == LastIndexOf(path, "/") IN
    IF path = "" \/ path = "/" THEN None
    ELSE IF slash = 0 THEN Some("")
    ELSE IF slash = 1 THEN Some("/")
    ELSE Some(SubSeq(path, 1, slash - 1))

RECURSIVE WithAncestors(_)
\* the directories fs::create_dir_all(dir) leaves in existence
WithAncestors(dir) ==
    IF dir = "" \/ dir = "/" THEN {}
    ELSE {dir} \cup WithAncestors(Parent(dir).val)

\* whether fs::write(path, ..) can create the file: its directory must exist
Writable(path, existing) ==
    /\ Parent(path).some
    /\ Parent(path).val \in existing \cup {"", "/"}

NumArgs == 5

\* env::args() of the runs considered
ArgLists ==
    {<<"config-generator", "config.textproto.template", ".authn",
       "traildepot/config.textproto", "traildepot/secrets/secrets.textproto">>,
     <<"config-generator", "config.textproto.template", ".authn",
       "config.textproto", "/">>,
     <<"config-generator", "config.textproto.template", ".authn",
       "config.textproto", "secrets.textproto">>,
     <<"config-generator", "config.textproto.template", ".authn",
       "config.textproto">>,
     <<"config-generator", "config.textproto.template", ".authn",
       "config.textproto", "secrets.textproto", "extra">>}

\* the directories that may exist before the run
InitialDirs == {{}, {"traildepot"}}

\* the io::Error texts the runs considered print
IoErrors == {"No such file or directory (os error 2)",
             "Permission denied (os error 13)"}

Usage(prog) ==
    <<"Usage: " \o prog \o " <template-file> <authn-file> <config-output> <vault-output>",
      "  template-file: Path to config.textproto.template",
      "  authn-file: Path to .authn file with OAuth credentials and email configuration",
      "  config-output: Path to write the generated config.textproto",
      "  vault-output: Path to write the generated secrets.textproto">>

---------------------------------------------------------------------------
(* The inputs of the runs considered *)

RECURSIVE Join(_, _)
Join(lines, eol) ==
    IF lines = <<>> THEN ""
    ELSE IF Len(lines) = 1 THEN lines[1]
    ELSE lines[1] \o eol \o Join(Tail(lines), eol)

\* lines without the i-th
Without(lines, i) == SubSeq(lines, 1, i - 1) \o SubSeq(lines, i + 1, Len(lines))

\* a complete authn file
BaseLines ==
    <<"GOOGLE_OAUTH_CLIENT_ID=abc",
      "GOOGLE_OAUTH_CLIENT_SECRET=xyz",
      "EMAIL_SMTP_HOST=smtp.example.com",
      "EMAIL_SMTP_PORT=587",
      "EMAIL_SMTP_USERNAME=user",
      "EMAIL_SMTP_PASSWORD=hunter2",
      "EMAIL_SENDER_NAME=App",
      "EMAIL_SENDER_ADDRESS=app@example.com">>

\* a template as the deployment ships it
FullTemplate ==
    "auth {\n  oauth_providers: [{\n    key: \"google\"\n    value {\n"
    \o "      client_id: \"<REDACTED>\"\n      client_secret: \"<REDACTED>\"\n"
    \o "      provider_id: GOOGLE\n    }\n  }]\n}\nemail {}\n"

\* the template files main is run on
MainTemplates ==
    {FullTemplate,
     "client_id: \"<REDACTED>\"\nclient_secret: \"<REDACTED>\"\n",
     "server {}\n"}

\* the authn files main is run on: complete, each key missing in turn, a bad
\* port with and without a missing key, secrets of another value
MainAuthnInputs ==
    {Join(BaseLines, "\n")}
    \cup {Join(Without(BaseLines, i), "\n") : i \in 1..Len(BaseLines)}
    \cup {Join(<<"EMAIL_SMTP_PORT=25", "EMAIL_SMTP_PORT=abc">>
               \o Without(BaseLines, 1), "\n"),
          Join(<<"EMAIL_SMTP_PORT=70000">> \o Without(BaseLines, 4), "\n"),
          Join(<<"# staging", "", "EMAIL_SMTP_PORT=99999">> \o BaseLines, "\r\n"),
          Join(BaseLines \o <<"GOOGLE_OAUTH_CLIENT_SECRET = s3cr=t ",
                              "EMAIL_SMTP_PASSWORD=\"p w\\d\"",
                              "EMAIL_SMTP_HOST=xyz">>, "\n"),
          ""}

\* the most lines added to a complete or nearly complete authn file
MaxExtraLines == 1

\* lines to add: blank, comments, no "=", unrecognized keys, repeated keys
ExtraLines ==
    {"", "  \t ", "  # EMAIL_SMTP_PORT=abc",
     "EMAIL_SMTP_PORT", "UNKNOWN_KEY=1", "email_smtp_port=abc",
     "EMAIL_SMTP_PORT=abc", " EMAIL_SMTP_PORT = 25 ", "EMAIL_SMTP_PORT=65536",
     "EMAIL_SMTP_PORT=+0465", "EMAIL_SMTP_PORT=",
     "GOOGLE_OAUTH_CLIENT_ID=other", "GOOGLE_OAUTH_CLIENT_SECRET = a=b "}

ExtraSeqs(n) == UNION {[1..k -> ExtraLines] : k \in 0..n}

\* the authn files the parser is run on: the complete file or the file
\* without its first key, its port or its last key, with up to MaxExtraLines lines put before and after it,
\* the lines ended by "\n" or by "\r\n"
ParseInputs ==
    {Join(extra[1] \o base \o extra[2], eol) \o eol :
        extra \in {e \in ExtraSeqs(MaxExtraLines) \X ExtraSeqs(MaxExtraLines) :
                    Len(e[1]) + Len(e[2]) <= MaxExtraLines},
        base \in {BaseLines} \cup
                 {Without(BaseLines, i) : i \in {1, 4, Len(BaseLines)}},
        eol \in {"\n", "\r\n"}}

\* the most pieces a template is put together from
MaxChunks == 2

\* pieces of a template: the two placeholders main fills, the placeholder of
\* the client secret, a block main does not know, and plain text
Chunks ==
    {"client_id: \"<REDACTED>\"\n", "client_secret: \"<REDACTED>\"\n",
     "email {}", "server {}\n", "xyz"}

RECURSIVE Concat(_)
Concat(pieces) ==
    IF pieces = <<>> THEN "" ELSE pieces[1] \o Concat(Tail(pieces))

\* the templates the config text is built from
BuildTemplates ==
    {Concat(pieces) : pieces \in UNION {[1..k -> Chunks] : k \in 0..MaxChunks}}

\* the authn files the config text is built from: complete files whose
\* values include placeholder text, a secret equal to the SMTP username and a
\* password equal to text of the template
BuildAuthnInputs ==
    {Join(<<"GOOGLE_OAUTH_CLIENT_ID=" \o id,
            "GOOGLE_OAUTH_CLIENT_SECRET=" \o secret,
            "EMAIL_SMTP_HOST=" \o host,
            "EMAIL_SMTP_PORT=" \o port,
            "EMAIL_SMTP_USERNAME=user",
            "EMAIL_SMTP_PASSWORD=" \o password,
            "EMAIL_SENDER_NAME=App",
            "EMAIL_SENDER_ADDRESS=app@example.com">>, "\n") :
        id \in {"abc", "email {}", "<REDACTED>"},
        secret \in {"s3cr=t", "user"},
        host \in {"smtp.example.com", "email {}"},
        port \in {"587", "+0"},
        password \in {"hunter2", "xyz"}}

---------------------------------------------------------------------------
(* main *)

Init ==
    /\ pc = "args"
    /\ args = None
    /\ template = None
    /\ authn_content = None
    /\ authn_data = None
    /\ config = None
    /\ vault = None
    /\ vault_content = None
    /\ dirs \in InitialDirs
    /\ config_file = None
    /\ vault_file = None
    /\ stderr = <<>>
    /\ exit_code = None
    /\ trace = <<>>

\* eprintln!(..); process::exit(1)
Exit(messages) ==
    /\ stderr' = stderr \o messages
    /\ exit_code' = Some(1)
    /\ pc' = "exit"

\* let args = env::args().collect(); if args.len() != 5 { usage; exit(1) }
CheckArgs ==
    /\ pc = "args"
    /\ trace' = Append(trace, "args")
    /\ \E a \in ArgLists :
        /\ args' = Some(a)
        /\ \/ /\ Len(a) # NumArgs
              /\ Exit(Usage(a[1]))
           \/ /\ Len(a) = NumArgs
              /\ pc' = "read_template"
              /\ UNCHANGED <<stderr, exit_code>>
    /\ UNCHANGED <<template, authn_content, authn_data, config, vault,
                   vault_content, dirs, config_file, vault_file>>

\* let template = match fs::read_to_string(template_path) { .. }
ReadTemplate ==
    /\ pc = "read_template"
    /\ trace' = Append(trace, "read_template")
    /\ \/ \E text \in MainTemplates :
            /\ template' = Some(text)
            /\ pc' = "read_authn"
            /\ UNCHANGED <<stderr, exit_code>>
       \/ \E e \in IoErrors :
            /\ Exit(<<"Error reading template file '" \o args.val[2]
                      \o "': " \o e>>)
            /\ UNCHANGED template
    /\ UNCHANGED <<args, authn_content, authn_data, config, vault,
                   vault_content, dirs, config_file, vault_file>>

\* let authn_content = match fs::read_to_string(authn_path) { .. }
ReadAuthn ==
    /\ pc = "read_authn"
    /\ trace' = Append(trace, "read_authn")
    /\ \/ \E text \in MainAuthnInputs :
            /\ authn_content' = Some(text)
            /\ pc' = "parse"
            /\ UNCHANGED <<stderr, exit_code>>
       \/ \E e \in IoErrors :
            /\ Exit(<<"Error reading authn file '" \o args.val[3]
                      \o "': " \o e>>)
            /\ UNCHANGED authn_content
    /\ UNCHANGED <<args, template, authn_data, config, vault, vault_content,
                   dirs, config_file, vault_file>>

\* let authn_data = parse_authn_file(&authn_content);
ParseAuthn ==
    /\ pc = "parse"
    /\ trace' = Append(trace, "parse")
    /\ LET r == parse_authn_file(authn_content.val) IN
       \/ /\ r.ok
          /\ authn_data' = Some(r.data)
          /\ pc' = "build_config"
          /\ UNCHANGED <<stderr, exit_code>>
       \/ /\ ~r.ok
          /\ Exit(<<r.err>>)
          /\ UNCHANGED authn_data
    /\ UNCHANGED <<args, template, authn_content, config, vault,
                   vault_content, dirs, config_file, vault_file>>

\* let mut config = template.replace(..); ..; config = config.replace(..);
BuildConfig ==
    /\ pc = "build_config"
    /\ trace' = Append(trace, "build_config")
    /\ config' = Some(ConfigText(template.val, authn_data.val))
    /\ pc' = "generate_vault"
    /\ UNCHANGED <<args, template, authn_content, authn_data, vault,
                   vault_content, dirs, config_file, vault_file, stderr,
                   exit_code>>

\* let vault_content = match generate_vault_file(..) { Ok(content) => content, .. }
GenerateVault ==
    /\ pc = "generate_vault"
    /\ trace' = Append(trace, "generate_vault")
    /\ \E order \in IterationOrders(VaultSecrets("", "")) :
        LET r == generate_vault_file(authn_data.val.client_secret,
                                     authn_data.val.email_smtp_password,
                                     order) IN
        /\ vault' = Some(r.secrets)
        /\ vault_content' = Some(r.text)
    /\ pc' = "create_dir"
    /\ UNCHANGED <<args, template, authn_content, authn_data, config, dirs,
                   config_file, vault_file, stderr, exit_code>>

\* CreateVaultDir with the create_dir_all call left out
CreateVaultDirSkipped ==
    /\ pc = "create_dir"
    /\ pc' = "write_config"
    /\ UNCHANGED <<args, template, authn_content, authn_data, config, vault,
                   vault_content, dirs, config_file, vault_file, stderr,
                   exit_code, trace>>

\* if let Some(vault_dir) = Path::new(vault_output_path).parent() { create_dir_all }
CreateVaultDir ==
    /\ pc = "create_dir"
    /\ LET vault_dir == Parent(args.val[5]) IN
       \/ /\ ~vault_dir.some
          /\ pc' = "write_config"
          /\ UNCHANGED <<dirs, stderr, exit_code, trace>>
       \/ /\ vault_dir.some
          /\ trace' = Append(trace, "create_dir")
          /\ dirs' = dirs \cup WithAncestors(vault_dir.val)
          /\ pc' = "write_config"
          /\ UNCHANGED <<stderr, exit_code>>
       \/ /\ vault_dir.some
          /\ vault_dir.val # ""
          /\ trace' = Append(trace, "create_dir")
          /\ \E e \in IoErrors :
                Exit(<<"Error creating vault directory '" \o vault_dir.val
                       \o "': " \o e>>)
          /\ UNCHANGED dirs
    /\ UNCHANGED <<args, template, authn_content, authn_data, config, vault,
                   vault_content, config_file, vault_file>>

\* match fs::write(config_output_path, config) { .. }
WriteConfig ==
    /\ pc = "write_config"
    /\ trace' = Append(trace, "write_config")
    /\ \/ /\ Writable(args.val[4], dirs)
          /\ config_file' = Some(config.val)
          /\ stderr' = Append(stderr, "Successfully generated config file: "
                                      \o args.val[4])
          /\ pc' = "write_vault"
          /\ UNCHANGED exit_code
       \/ /\ \E e \in IoErrors :
                Exit(<<"Error writing config file '" \o args.val[4]
                       \o "': " \o e>>)
          /\ UNCHANGED config_file
    /\ UNCHANGED <<args, template, authn_content, authn_data, config, vault,
                   vault_content, dirs, vault_file>>

\* match fs::write(vault_output_path, vault_content) { .. }; main returns
WriteVault ==
    /\ pc = "write_vault"
    /\ trace' = Append(trace, "write_vault")
    /\ \/ /\ Writable(args.val[5], dirs)
          /\ vault_file' = Some(vault_content.val)
          /\ stderr' = Append(stderr, "Successfully generated vault file: "
                                      \o args.val[5])
          /\ exit_code' = Some(0)
          /\ pc' = "done"
       \/ /\ \E e \in IoErrors :
                Exit(<<"Error writing vault file '" \o args.val[5]
                       \o "': " \o e>>)
          /\ UNCHANGED vault_file
    /\ UNCHANGED <<args, template, authn_content, authn_data, config, vault,
                   vault_content, dirs, config_file>>

Next ==
    \/ CheckArgs
    \/ ReadTemplate
    \/ ReadAuthn
    \/ ParseAuthn
    \/ BuildConfig
    \/ GenerateVault
    \/ CreateVaultDir
    \/ WriteConfig
    \/ WriteVault

Spec == Init /\ [][Next]_vars

\* main about to call parse_authn_file on one of ParseInputs
InitParse ==
    /\ pc = "parse"
    /\ args = Some(CHOOSE a \in ArgLists : Parent(a[Len(a)]).val = "traildepot/secrets")
    /\ template = Some(FullTemplate)
    /\ authn_content \in {Some(text) : text \in ParseInputs}
    /\ authn_data = None
    /\ config = None
    /\ vault = None
    /\ vault_content = None
    /\ dirs = {}
    /\ config_file = None
    /\ vault_file = None
    /\ stderr = <<>>
    /\ exit_code = None
    /\ trace = <<"args", "read_template", "read_authn">>

SpecParse == InitParse /\ [][ParseAuthn]_vars

\* main about to build the config text from one of BuildTemplates and the
\* record parsed from one of BuildAuthnInputs
InitBuild ==
    /\ pc = "build_config"
    /\ args = Some(CHOOSE a \in ArgLists : Parent(a[Len(a)]).val = "traildepot/secrets")
    /\ template \in {Some(text) : text \in BuildTemplates}
    /\ \E text \in BuildAuthnInputs :
        /\ authn_content = Some(text)
        /\ authn_data = Some(parse_authn_file(text).data)
    /\ config = None
    /\ vault = None
    /\ vault_content = None
    /\ dirs = {}
    /\ config_file = None
    /\ vault_file = None
    /\ stderr = <<>>
    /\ exit_code = None
    /\ trace = <<"args", "read_template", "read_authn", "parse">>

SpecBuild == InitBuild /\ [][BuildConfig]_vars

---------------------------------------------------------------------------
(* What an authn file says, read off its lines *)

\* a line that is neither blank nor a comment and has a "="
IsAssignment(rawline) ==
    /\ Trim(rawline) # ""
    /\ ~StartsWith(Trim(rawline), "#")
    /\ Contains(Trim(rawline), "=")

\* the text before the first "=" and the text after it, both trimmed
LineKey(rawline) == Trim(SplitOnce(Trim(rawline), "=").val[1])

LineValue(rawline) == Trim(SplitOnce(Trim(rawline), "=").val[2])

RECURSIVE StripZeros(_)
StripZeros(s) ==
    IF Len(s) > 1 /\ CharAt(s, 1) = "0" THEN StripZeros(SubSeq(s, 2, Len(s)))
    ELSE s

RECURSIVE NumberOf(_)
NumberOf(s) ==
    IF s = "" THEN 0
    ELSE 10 * NumberOf(SubSeq(s, 1, Len(s) - 1)) + DigitValue(CharAt(s, Len(s)))

\* a decimal integer in 0..65535, with an optional "+" and leading zeros
IsPortNumber(value) ==
    LET digits == IF StartsWith(value, "+")
                  THEN SubSeq(value, 2, Len(value)) ELSE value IN
    /\ digits # ""
    /\ \A i \in 1..Len(digits) : IsDigit(CharAt(digits, i))
    /\ Len(StripZeros(digits)) <= 5
    /\ NumberOf(StripZeros(digits)) <= 65535

\* an EMAIL_SMTP_PORT line whose value is no port number
IsInvalidPortLine(rawline) ==
    /\ IsAssignment(rawline)
    /\ LineKey(rawline) = KeySmtpPort
    /\ ~IsPortNumber(LineValue(rawline))

RecognizedKeys == {RequiredKeys[k] : k \in DOMAIN RequiredKeys}

\* the file line by line: the recognized key a line is about, if any, and
\* whether the line is an invalid port line
Reading(content) ==
    LET lines == Lines(content) IN
    [i \in DOMAIN lines |->
        [line    |-> lines[i],
         key     |-> IF IsAssignment(lines[i])
                        /\ LineKey(lines[i]) \in RecognizedKeys
                     THEN Some(LineKey(lines[i])) ELSE None,
         badport |-> IsInvalidPortLine(lines[i])]]

\* the reading of the authn file main has read
AuthnReading == {Reading(authn_content.val)}

\* r has an invalid port line
HasInvalidPortLine(r) == \E i \in DOMAIN r : r[i].badport

\* the required keys no line of r sets
NeverSet(r) ==
    RecognizedKeys \ {r[i].key.val :
                        i \in {i \in DOMAIN r : r[i].key.some /\ ~r[i].badport}}

\* a later line of r is about the key of line i
Superseded(r, i) ==
    /\ r[i].key.some
    /\ \E j \in (i + 1)..Len(r) : r[j].key = r[i].key

\* the lines of r whose indices are in `kept`, as a file
Select(r, kept) ==
    LET F[i \in 0..Len(r)] ==
            IF i = 0 THEN <<>>
            ELSE IF i \in kept THEN Append(F[i - 1], r[i].line) ELSE F[i - 1]
    IN Join(F[Len(r)], "\n")

\* r with only the last line of every key
LastOccurrences(r) == Select(r, {i \in DOMAIN r : ~Superseded(r, i)})

\* r with only the last line of every key, and every invalid port line
LastOccurrencesAndBadPorts(r) ==
    Select(r, {i \in DOMAIN r : ~Superseded(r, i) \/ r[i].badport})

\* r with only the lines about a recognized key
RecognizedLines(r) == Select(r, {i \in DOMAIN r : r[i].key.some})

Occurs(step) == \E i \in DOMAIN trace : trace[i] = step

Before(step, i) == \E j \in 1..(i - 1) : trace[j] = step

Ended == pc \in {"done", "exit"}

Parsed == Occurs("parse")

---------------------------------------------------------------------------
(* Claims about a run of main *)

\* C2: a run never ends with exactly one of the two artifacts written: at the
\* end either both the config output and the vault output exist or neither.
C2_NoPartialSuccess ==
    Ended => (config_file.some <=> vault_file.some)

\* C3: the map generate_vault_file builds has exactly the two secret
\* identifiers as keys, bound to the record's client_secret and
\* email_smtp_password; no other entry is stored.
C3_VaultCompleteExclusive ==
    vault.some =>
        /\ DOMAIN vault.val = {"TRAIL_AUTH_OAUTH_PROVIDERS_GOOGLE_CLIENT_SECRET",
                               "TRAIL_EMAIL_SMTP_PASSWORD"}
        /\ vault.val["TRAIL_AUTH_OAUTH_PROVIDERS_GOOGLE_CLIENT_SECRET"]
               = authn_data.val.client_secret
        /\ vault.val["TRAIL_EMAIL_SMTP_PASSWORD"]
               = authn_data.val.email_smtp_password
        /\ \A k \in DOMAIN vault.val :
               vault.val[k] \in {authn_data.val.client_secret,
                                 authn_data.val.email_smtp_password}

\* a run that wrote a vault whose two secrets differ from each other and from
\* the client id
C3_Witness ==
    /\ vault.some
    /\ authn_data.val.client_secret # authn_data.val.email_smtp_password
    /\ authn_data.val.client_id # authn_data.val.client_secret
    /\ vault_file.some

\* what C5 promises of a run whose authn file leaves a required key unset:
\* the process has exited with status 1, the last message is one of
\* `allowed`, and nothing was written or created
RejectedWith(allowed) ==
    /\ pc = "exit"
    /\ exit_code = Some(1)
    /\ stderr # <<>>
    /\ stderr[Len(stderr)] \in allowed
    /\ ~config_file.some
    /\ ~vault_file.some
    /\ ~Occurs("create_dir") /\ ~Occurs("write_config") /\ ~Occurs("write_vault")

\* C5 as claimed: when a required key is never set, the run exits non-zero
\* with a message that names a key that is missing, before any output.
C5_MissingFieldNamed ==
    Parsed => \A r \in AuthnReading :
        NeverSet(r) # {} =>
            RejectedWith({m \in {stderr[i] : i \in DOMAIN stderr} :
                            \E k \in NeverSet(r) : Contains(m, k)})

\* the first, in the order the fields are declared, of the keys never set
FirstNeverSet(r) ==
    RequiredKeys[Least({k \in DOMAIN RequiredKeys : RequiredKeys[k] \in NeverSet(r)})]

\* C5, amended: when a required key is never set, the run exits with status 1
\* before any output; the message is the invalid-port message when some
\* EMAIL_SMTP_PORT line has an invalid value, and otherwise the not-found
\* message of the first key that is never set.
C5_MissingFieldRejected ==
    Parsed => \A r \in AuthnReading :
        NeverSet(r) # {} =>
            RejectedWith(
                IF HasInvalidPortLine(r)
                THEN {"Error: EMAIL_SMTP_PORT must be a valid number"}
                ELSE {"Error: " \o FirstNeverSet(r) \o " not found in authn file"})

\* a run on a file that leaves only EMAIL_SENDER_ADDRESS unset has exited
C5_Witness ==
    /\ Parsed
    /\ \E r \in AuthnReading : NeverSet(r) = {"EMAIL_SENDER_ADDRESS"}
    /\ pc = "exit"

\* C8: no output file is written before the settings are parsed, the config
\* text is built and generate_vault_file has returned; and when the vault
\* path has a parent directory, create_dir_all has run, and the directory
\* exists, before the vault file write is attempted.
C8_WriteOrdering ==
    /\ \A i \in DOMAIN trace :
        /\ trace[i] \in {"write_config", "write_vault"} =>
                /\ Before("parse", i)
                /\ Before("build_config", i)
                /\ Before("generate_vault", i)
                /\ authn_data.some /\ config.some /\ vault_content.some
        /\ (trace[i] = "write_vault" /\ Parent(args.val[5]).some) =>
                /\ Before("create_dir", i)
                /\ WithAncestors(Parent(args.val[5]).val) \subseteq dirs
    /\ (config_file.some => Occurs("write_config"))
    /\ (vault_file.some => Occurs("write_vault"))

\* a run that created the vault directory and wrote both files
C8_Witness ==
    /\ pc = "done"
    /\ Occurs("create_dir")
    /\ config_file.some /\ vault_file.some

---------------------------------------------------------------------------
(* Claims about parse_authn_file *)

\* what the call of parse_authn_file in main came to: the record bound to
\* authn_data, or the message printed on the way to process::exit(1)
ParseOutcome ==
    IF authn_data.some THEN [ok |-> TRUE, data |-> authn_data.val]
    ELSE [ok |-> FALSE, err |-> stderr[Len(stderr)]]

\* C6: an EMAIL_SMTP_PORT line whose value is no decimal integer in 0..65535
\* aborts the run with the EMAIL_SMTP_PORT message, whatever else the file
\* holds: no record is produced and no default port is used.
C6_InvalidPortRejected ==
    Parsed => \A r \in AuthnReading :
        HasInvalidPortLine(r) =>
            /\ ~authn_data.some
            /\ pc = "exit"
            /\ exit_code = Some(1)
            /\ stderr = <<"Error: EMAIL_SMTP_PORT must be a valid number">>

\* a file that sets every key and also has an invalid port line is rejected
C6_Witness ==
    /\ Parsed
    /\ \E r \in AuthnReading : HasInvalidPortLine(r) /\ NeverSet(r) = {}
    /\ pc = "exit"

\* C9 as claimed: the outcome of parsing a file is the outcome of parsing it
\* with only the last line of every repeated key kept.
C9_LastOccurrenceWins ==
    Parsed => \A r \in AuthnReading :
        ParseOutcome = parse_authn_file(LastOccurrences(r))

\* C9, amended: the outcome of parsing a file is the outcome of parsing it
\* with only the last line of every repeated key kept, together with every
\* EMAIL_SMTP_PORT line whose value is invalid: an earlier line has no effect
\* unless it is an invalid port line, which aborts the parse.
C9_LastValidOccurrenceWins ==
    Parsed => \A r \in AuthnReading :
        ParseOutcome = parse_authn_file(LastOccurrencesAndBadPorts(r))

\* a file that repeats the client id is accepted with the later value
C9_Witness ==
    /\ Parsed
    /\ authn_data.some
    /\ \E r \in AuthnReading : \E i \in DOMAIN r : Superseded(r, i)
    /\ authn_data.val.client_id = "other"

\* C10: blank lines, comment lines, lines without "=" and lines whose key is
\* none of the eight recognized keys do not change the outcome: it is the
\* outcome of parsing the file without them.
C10_IgnoredLines ==
    Parsed => \A r \in AuthnReading :
        ParseOutcome = parse_authn_file(RecognizedLines(r))

\* a file with a line that has no "=" is accepted
C10_Witness ==
    /\ Parsed
    /\ authn_data.some
    /\ Contains(authn_content.val, "\nEMAIL_SMTP_PORT\n")

---------------------------------------------------------------------------
(* Claims about the public config text *)

Built == Occurs("build_config")

\* the values of the public fields, as they are written
PublicEmailValues(d) ==
    {d.email_smtp_host, ToDecimal(d.email_smtp_port), d.email_smtp_username,
     d.email_sender_name, d.email_sender_address}

PublicValues(d) == {d.client_id} \cup PublicEmailValues(d)

\* the record with other secrets
WithSecrets(d, client_secret, email_password) ==
    [d EXCEPT !.client_secret = client_secret,
              !.email_smtp_password = email_password]

RECURSIVE SubstitutedFrom(_, _, _)
SubstitutedFrom(tmpl, d, i) ==
    LET id    == FindFrom(tmpl, "client_id: \"<REDACTED>\"", i)
        email == FindFrom(tmpl, "email {}", i)
    IN IF id = 0 /\ email = 0 THEN SubSeq(tmpl, i, Len(tmpl))
       ELSE IF email = 0 \/ (id # 0 /\ id < email)
       THEN SubSeq(tmpl, i, id - 1) \o "client_id: \"" \o d.client_id \o "\""
            \o SubstitutedFrom(tmpl, d, id + Len("client_id: \"<REDACTED>\""))
       ELSE SubSeq(tmpl, i, email - 1) \o EmailSection(d)
            \o SubstitutedFrom(tmpl, d, email + Len("email {}"))

\* the template with the placeholders that occur in it, and nothing else,
\* replaced
Substituted(tmpl, d) == SubstitutedFrom(tmpl, d, 1)

\* C1 as claimed: the public config contains neither the client secret nor
\* the SMTP password as a substring.
C1_NoSecretSubstring ==
    Built =>
        /\ ~Contains(config.val, authn_data.val.client_secret)
        /\ ~Contains(config.val, authn_data.val.email_smtp_password)

\* C1, amended: the public config does not depend on the secrets: it is the
\* text built from the same template and public fields with any other client
\* secret and SMTP password, and an email block expanded from the template
\* holds the marker in place of the password.
C1_ConfigIndependentOfSecrets ==
    Built =>
        /\ \A secret, password \in {"", "other"} :
            config.val = ConfigText(template.val,
                            WithSecrets(authn_data.val, secret, password))
        /\ Contains(template.val, "email {}") =>
            Contains(config.val, "\n  smtp_password: \"<REDACTED>\"\n")

\* a template with the email block and the client secret marker, filled from
\* secrets that occur nowhere in the result
C1_Witness ==
    /\ Built
    /\ Contains(template.val, "email {}")
    /\ Contains(template.val, "client_secret: \"<REDACTED>\"")
    /\ authn_data.val.client_secret = "s3cr=t"
    /\ authn_data.val.email_smtp_password = "hunter2"
    /\ ~Contains(config.val, "s3cr=t")
    /\ ~Contains(config.val, "hunter2")

\* C4 as claimed: every public value occurs in the public config and neither
\* placeholder does.
C4_PublicRoundTrip ==
    Built =>
        /\ \A v \in PublicValues(authn_data.val) : Contains(config.val, v)
        /\ ~Contains(config.val, "client_id: \"<REDACTED>\"")
        /\ ~Contains(config.val, "email {}")

\* C4, amended: when the template has the client id placeholder the config
\* holds the client id field, its value verbatim but for each "email {}" in
\* it, which the second replacement expands; when the template has the
\* "email {}" placeholder the config holds every public email value; and no
\* placeholder is left when no value contains "<REDACTED>" or "email {}".
C4_PublicRoundTripWherePlaced ==
    Built =>
        LET d == authn_data.val IN
        /\ Contains(template.val, "client_id: \"<REDACTED>\"") =>
            /\ Contains(config.val,
                   "client_id: \""
                   \o Replace(d.client_id, "email {}", EmailSection(d)) \o "\"")
            /\ ~Contains(d.client_id, "email {}") =>
                   Contains(config.val, "client_id: \"" \o d.client_id \o "\"")
        /\ Contains(template.val, "email {}") =>
            \A v \in PublicEmailValues(d) : Contains(config.val, v)
        /\ (\A v \in PublicValues(d) :
                ~Contains(v, "<REDACTED>") /\ ~Contains(v, "email {}")) =>
            /\ ~Contains(config.val, "client_id: \"<REDACTED>\"")
            /\ ~Contains(config.val, "email {}")

\* a template with both placeholders, filled: every public value is in the
\* config and neither placeholder is
C4_Witness ==
    /\ Built
    /\ Contains(template.val, "client_id: \"<REDACTED>\"")
    /\ Contains(template.val, "email {}")
    /\ \A v \in PublicValues(authn_data.val) : Contains(config.val, v)
    /\ ~Contains(config.val, "client_id: \"<REDACTED>\"")
    /\ ~Contains(config.val, "email {}")

\* C7: the public config is the template with the occurrences of the two
\* placeholders that are in the template replaced and everything else, the
\* inserted client id included, carried over unchanged.
C7_TemplatePassThrough ==
    Built => config.val = Substituted(template.val, authn_data.val)

===========================================================================
